---- MODULE Spec2Model ----
(***************************************************************************)
(* SoupaWhisper (src/dictate.py): the push-to-talk dictation control loop. *)
(* Two threads: the main thread (main -> check_dependencies -> Dictation() *)
(* -> Dictation.run, with start_recording / stop_recording called from the *)
(* event loop) and the model loader thread (Dictation._load_model).        *)
(* The operating system side (installed tools, capture child processes,    *)
(* temporary files) is part of the state.                                  *)
(***************************************************************************)
EXTENDS Integers, Sequences, FiniteSets, TLC

\* ------------------------------------------------------------------ bounds
MaxDevices == 2        \* input devices present on the host
MaxRecordings == 2     \* start_recording calls that pass the guard
MaxSegments == 2       \* segments one transcription yields

\* ------------------------------------------------------- program constants
SIGKILL == 9
EXIT_FAILURE == 1

Devices == 1..MaxDevices
\* the external tools the process looks up; TYPING_TOOL stands for the one
\* of wtype / xdotool that the session's display server selects
TYPING_TOOL == "wtype|xdotool"
Tools == {"pw-record", "arecord", TYPING_TOOL, "notify-send"}

\* Python None, and a set value wrapped so that it can be compared with None
NoneVal == <<>>
Some(x) == <<x>>

\* event.code: the configured hotkey or any other key
HOTKEY == "HOTKEY"
OTHERKEY == "OTHERKEY"
KeyCodes == {HOTKEY, OTHERKEY}
\* event.value: 1 press, 0 release, 2 repeat
KeyValues == {0, 1, 2}
\* the events a device delivers: key events, and events of another type
\* (run() skips those)
Events ==
  {[type |-> "EV_KEY", code |-> c, value |-> v] : c \in KeyCodes, v \in KeyValues}
  \cup {[type |-> "EV_SYN", code |-> OTHERKEY, value |-> 0]}

\* str(e) of the exception WhisperModel(...) may raise
ErrMsgs == {"", "cuDNN not found"}

\* segment.text values the model yields (sequences of characters)
SegTexts == {<<"a">>, <<" ", "a">>, <<" ">>}

VARIABLES
  AUTO_TYPE,        \* CONFIG["auto_type"]
  NOTIFICATIONS,    \* CONFIG["notifications"]
  avail,            \* tools `which` finds / Popen can exec, now
  pc,               \* where the main thread is
  exitStatus,       \* NoneVal while the process lives, else Some(status)
  sigintHandler,    \* handle_sigint is installed
  missing,          \* check_dependencies: the missing list
  keyboards,        \* self.keyboards
  selector,         \* devices registered with self.selector
  device,           \* run(): the device whose event is being handled
  recording,        \* self.recording
  record_process,   \* self.record_process
  temp_file,        \* self.temp_file (the path it names)
  record_cmd,       \* start_recording: record_cmd[0] of the last spawn
  model,            \* self.model
  model_loaded,     \* self.model_loaded (threading.Event)
  model_error,      \* self.model_error
  running,          \* self.running
  loaderPc,         \* where the loader thread is
  children,         \* capture child processes alive
  files,            \* temporary audio files that exist
  session,          \* number of recordings started so far
  loadingAtStart,   \* the model was still loading when the recording began
  calls,            \* what the current recording's pipeline did, in order
  sigterm,          \* children that were sent SIGTERM by terminate()
  lastRead,         \* the last thing device.read() produced in run()
  interruptedAt     \* where the main thread was when SIGINT was handled

vars == <<AUTO_TYPE, NOTIFICATIONS, avail, pc,
          exitStatus, sigintHandler, missing, keyboards, selector, device,
          recording, record_process, temp_file, record_cmd, model,
          model_loaded, model_error, running, loaderPc, children, files,
          session, loadingAtStart, calls, sigterm,
          lastRead, interruptedAt>>

config == <<AUTO_TYPE, NOTIFICATIONS>>
env == <<avail>>
loader == <<model, model_loaded, model_error, loaderPc>>
os == <<children, files, sigterm>>
sess == <<recording, record_process, temp_file, record_cmd, session,
          loadingAtStart>>
pipe == <<calls>>
boot == <<sigintHandler, missing, keyboards, running, interruptedAt>>

Alive == exitStatus = NoneVal

\* --------------------------------------------------------- pure functions
\* Python truthiness of self.model_error (None or a str)
Truthy(v) == v # NoneVal /\ v[1] # ""

\* get_audio_recorder()
get_audio_recorder ==
  IF "pw-record" \in avail THEN "pipewire"
  ELSE IF "arecord" \in avail THEN "alsa"
  ELSE "none"

\* get_record_command(output_file)[0]
get_record_command ==
  IF get_audio_recorder = "pipewire" THEN "pw-record" ELSE "arecord"

\* the tool type_text() runs; also the one check_dependencies() requires
typing_tool == TYPING_TOOL

\* notify(): subprocess.run raises FileNotFoundError when the tool is absent
NotifyRaises == NOTIFICATIONS /\ "notify-send" \notin avail

\* variant: the typing tool is not checked
MissingDependencies_NoTypingCheck ==
  IF get_audio_recorder = "none" THEN {"pw-record or arecord"} ELSE {}

\* check_dependencies(): the missing list
MissingDependencies ==
  (IF get_audio_recorder = "none" THEN {"pw-record or arecord"} ELSE {})
  \cup (IF AUTO_TYPE /\ typing_tool \notin avail THEN {typing_tool} ELSE {})

\* ------------------------------------------------------------------- Init
Init ==
  /\ AUTO_TYPE \in BOOLEAN
  /\ NOTIFICATIONS \in BOOLEAN
  /\ avail \in SUBSET Tools
  /\ pc = "main"
  /\ exitStatus = NoneVal
  /\ sigintHandler = FALSE
  /\ missing = {}
  /\ keyboards = {}
  /\ selector = {}
  /\ device = NoneVal
  /\ recording = FALSE
  /\ record_process = NoneVal
  /\ temp_file = NoneVal
  /\ record_cmd = NoneVal
  /\ model = NoneVal
  /\ model_loaded = FALSE
  /\ model_error = NoneVal
  /\ running = TRUE
  /\ loaderPc = "unstarted"
  /\ children = {}
  /\ files = {}
  /\ session = 0
  /\ loadingAtStart = FALSE
  /\ calls = <<>>
  /\ sigterm = {}
  /\ lastRead = NoneVal
  /\ interruptedAt = NoneVal

\* ---------------------------------------------------------------- startup
\* main(): check_dependencies(); sys.exit(1) when something is missing
CheckDependencies ==
  /\ pc = "main"
  /\ missing' = MissingDependencies
  /\ IF MissingDependencies # {}
       THEN pc' = "exited" /\ exitStatus' = Some(EXIT_FAILURE)
       ELSE pc' = "construct" /\ UNCHANGED exitStatus
  /\ UNCHANGED <<config, env, loader, os, sess, pipe, sigintHandler,
                 keyboards, running, interruptedAt, selector, device,
                 lastRead>>

\* Dictation.__init__: the fields are as in Init; the loader thread starts
Construct ==
  /\ pc = "construct"
  /\ pc' = "signal"
  /\ loaderPc' = "loading"
  /\ UNCHANGED <<config, env, os, sess, pipe, boot, exitStatus, selector,
                 device, lastRead, model, model_loaded, model_error>>

\* main(): signal.signal(signal.SIGINT, handle_sigint)
InstallHandler ==
  /\ pc = "signal"
  /\ pc' = "run"
  /\ sigintHandler' = TRUE
  /\ UNCHANGED <<config, env, loader, os, sess, pipe, missing, keyboards,
                 running, interruptedAt, exitStatus, selector, device,
                 lastRead>>

\* find_keyboards(): the host has n keyboards that can be opened
find_keyboards(n) == 1..n

\* Dictation.run() up to the loop: find_keyboards(), register each keyboard
RunStart ==
  /\ pc = "run"
  /\ \E n \in 0..MaxDevices :
       LET ks == find_keyboards(n) IN
       /\ keyboards' = ks
       /\ IF ks = {}
            THEN pc' = "exited" /\ exitStatus' = Some(EXIT_FAILURE)
                 /\ UNCHANGED selector
            ELSE pc' = "select" /\ selector' = ks /\ UNCHANGED exitStatus
  /\ UNCHANGED <<config, env, loader, os, sess, pipe, sigintHandler,
                 missing, running, interruptedAt, device, lastRead>>

\* ----------------------------------------------------------- loader thread
\* variant: the except branch also runs after the model was assigned
LoadModel_ErrorAfterModel ==
  /\ Alive /\ loaderPc = "loading"
  /\ model' = Some("WhisperModel")
  /\ \/ UNCHANGED model_error
     \/ \E msg \in ErrMsgs : model_error' = Some(msg)
  /\ loaderPc' = "signal"
  /\ UNCHANGED <<config, env, os, sess, pipe, boot, pc, exitStatus,
                 selector, device, lastRead, model_loaded>>

\* _load_model: WhisperModel(...) returns, or raises e with str(e) = msg
LoadModel ==
  /\ Alive /\ loaderPc = "loading"
  /\ \/ model' = Some("WhisperModel") /\ UNCHANGED model_error
     \/ \E msg \in ErrMsgs : model_error' = Some(msg) /\ UNCHANGED model
  /\ loaderPc' = "signal"
  /\ UNCHANGED <<config, env, os, sess, pipe, boot, pc, exitStatus,
                 selector, device, lastRead, model_loaded>>

\* _load_model: self.model_loaded.set()
SignalLoaded ==
  /\ Alive /\ loaderPc = "signal"
  /\ model_loaded' = TRUE
  /\ loaderPc' = "done"
  /\ UNCHANGED <<config, env, os, sess, pipe, boot, pc, exitStatus,
                 selector, device, lastRead, model, model_error>>

\* ------------------------------------------------------ recording session
\* variant: the guard forgets the recording flag
StartGuard_NoRecordingCheck == Truthy(model_error)

\* variant: model_error is tested with `is not None`
StartGuard_AnyError == recording \/ model_error # NoneVal

\* start_recording: the guard of its early return
StartGuard == recording \/ Truthy(model_error)

\* start_recording(); raised: an OSError leaves the call
start_recording(raised) ==
  IF StartGuard
    THEN ~raised /\ UNCHANGED <<sess, os, pipe>>
    ELSE
      /\ recording' = TRUE
      /\ session' = session + 1
      /\ loadingAtStart' = ~model_loaded
      /\ calls' = <<>>
      /\ UNCHANGED sigterm
      /\ \E tmpOK \in BOOLEAN :
           IF ~tmpOK
             THEN \* tempfile.NamedTemporaryFile raises
                  /\ raised
                  /\ UNCHANGED <<temp_file, files, record_cmd,
                                 record_process, children>>
             ELSE /\ temp_file' = Some(session + 1)
                  /\ files' = files \cup {session + 1}
                  /\ record_cmd' = Some(get_record_command)
                  /\ IF get_record_command \notin avail
                       THEN \* subprocess.Popen raises FileNotFoundError
                            /\ raised
                            /\ UNCHANGED <<record_process, children>>
                       ELSE /\ record_process' = Some(session + 1)
                            /\ children' = children \cup {session + 1}
                            /\ raised = NotifyRaises

\* variant: stop_recording has no early return
StopGuard_Never == FALSE

\* stop_recording: the guard of its early return
StopGuard == ~recording

\* stop_recording after record_process.wait() returned: the handle is
\* dropped, "Transcribing..." is printed and notified
stop_recording_waited(raised) ==
  /\ record_process' = NoneVal
  /\ calls' = Append(calls, "Transcribing...")
  /\ raised = NotifyRaises
  /\ pc' = IF raised THEN "select" ELSE "wait_model"
  /\ UNCHANGED <<recording, temp_file, record_cmd, session,
                 loadingAtStart, os>>

\* stop_recording up to record_process.wait()
stop_recording(raised) ==
  IF StopGuard
    THEN ~raised /\ UNCHANGED <<sess, os, pipe, pc>>
    ELSE
      /\ recording' = FALSE
      /\ IF record_process # NoneVal
           THEN \* terminate(), then block in wait()
                /\ sigterm' = sigterm \cup (children \cap {record_process[1]})
                /\ pc' = "wait_child"
                /\ ~raised
                /\ UNCHANGED <<record_process, temp_file, record_cmd,
                               session, loadingAtStart, children, files,
                               pipe>>
           ELSE /\ record_process' = NoneVal
                /\ calls' = Append(calls, "Transcribing...")
                /\ raised = NotifyRaises
                /\ pc' = IF raised THEN "select" ELSE "wait_model"
                /\ UNCHANGED <<temp_file, record_cmd, session,
                               loadingAtStart, os>>

\* variant: the except branch drops every device
Unregister_All(d) == {}

\* run(): except OSError: self.selector.unregister(device)
Unregister(d) == selector \ {d}

\* variant: every hotkey event that is not a press stops the recording
on_key_event_ElseStops(code, value, raised) ==
  IF code = HOTKEY /\ value = 1
    THEN start_recording(raised) /\ UNCHANGED pc
  ELSE IF code = HOTKEY
    THEN stop_recording(raised)
  ELSE ~raised /\ UNCHANGED <<sess, os, pipe, pc>>

\* on_key_event(event) for an EV_KEY event
on_key_event(code, value, raised) ==
  IF code = HOTKEY /\ value = 1
    THEN start_recording(raised) /\ UNCHANGED pc
  ELSE IF code = HOTKEY /\ value = 0
    THEN stop_recording(raised)
  ELSE ~raised /\ UNCHANGED <<sess, os, pipe, pc>>

\* what device.read() produced: a device's event, or device d's OSError;
\* early: the event was the hotkey's press or release and the handler
\* returned at its guard. The device of an event is in the variable device
\* while its handler runs.
Read(d, kind, code, value, early) ==
  [dev |-> d, kind |-> kind, code |-> code, value |-> value, early |-> early]

\* ------------------------------------------------------------- main loop
\* run(): device.read() yields one event of device d, which is handled
ReadEvent ==
  /\ Alive /\ pc = "select"
  /\ \E d \in selector, event \in Events, raised \in BOOLEAN :
       /\ (event.type = "EV_KEY" /\ event.code = HOTKEY /\ event.value = 1
           /\ ~StartGuard)
             => session < MaxRecordings
       /\ lastRead' =
            Some(Read(NoneVal, event.type, event.code, event.value,
                      /\ event.type = "EV_KEY" /\ event.code = HOTKEY
                      /\ \/ event.value = 1 /\ StartGuard
                         \/ event.value = 0 /\ StopGuard))
       /\ IF event.type = "EV_KEY"
            THEN on_key_event(event.code, event.value, raised)
            ELSE ~raised /\ UNCHANGED <<sess, os, pipe, pc>>
       /\ selector' = IF raised THEN Unregister(d) ELSE selector
       /\ device' = IF pc' = "select" THEN NoneVal ELSE Some(d)
  /\ UNCHANGED <<config, env, loader, boot, exitStatus>>

\* run(): device.read() raises OSError (the device was unplugged)
ReadError ==
  /\ Alive /\ pc = "select"
  /\ \E d \in selector :
       /\ lastRead' = Some(Read(Some(d), "OSError", OTHERKEY, 0, FALSE))
       /\ selector' = Unregister(d)
  /\ UNCHANGED <<config, env, loader, boot, exitStatus, sess, os, pipe,
                 pc, device>>

\* variant: stop_recording goes on without record_process.wait()
wait_returns_NoWait == TRUE

\* record_process.wait() returns: the child of the handle has exited
wait_returns == record_process[1] \notin children

\* stop_recording: record_process.wait() returns once the child is gone
WaitChild ==
  /\ Alive /\ pc = "wait_child"
  /\ wait_returns
  /\ \E raised \in BOOLEAN :
       /\ stop_recording_waited(raised)
       /\ selector' = IF raised THEN Unregister(device[1]) ELSE selector
  /\ device' = IF pc' = "select" THEN NoneVal ELSE device
  /\ UNCHANGED <<config, env, loader, boot, exitStatus, lastRead>>

\* ------------------------------------------------- transcription pipeline
\* str.strip() of one segment text
RECURSIVE LStrip(_)
LStrip(s) == IF s # <<>> /\ Head(s) = " " THEN LStrip(Tail(s)) ELSE s

RECURSIVE RStrip(_)
RStrip(s) ==
  IF s # <<>> /\ s[Len(s)] = " " THEN RStrip(SubSeq(s, 1, Len(s) - 1)) ELSE s

Strip(s) == RStrip(LStrip(s))

\* " ".join(segment.text.strip() for segment in segments)
RECURSIVE Join(_)
Join(segs) ==
  IF segs = <<>> THEN <<>>
  ELSE IF Len(segs) = 1 THEN Strip(segs[1])
  ELSE Strip(segs[1]) \o <<" ">> \o Join(Tail(segs))

\* the segment sequences model.transcribe may yield
SegSeqs == UNION {[1..n -> SegTexts] : n \in 0..MaxSegments}

\* variant: the transcript is copied without the `if text` test
SinkCalls_NoTextTest(t) ==
  <<"clipboard">> \o (IF AUTO_TYPE THEN <<"typing">> ELSE <<>>)

\* variant: the transcript is typed without the `if AUTO_TYPE` test
SinkCalls_NoAutoTypeTest(t) ==
  IF t # <<>> THEN <<"clipboard", "typing">> ELSE <<>>

\* stop_recording: the sinks called for the transcript t, in order
SinkCalls(t) ==
  IF t # <<>>
    THEN <<"clipboard">> \o (IF AUTO_TYPE THEN <<"typing">> ELSE <<>>)
    ELSE <<>>

\* stop_recording: the finally block
Cleanup ==
  IF temp_file # NoneVal /\ temp_file[1] \in files
    THEN files \ {temp_file[1]} ELSE files

\* stop_recording after model_loaded.wait() returned, when model_error is set
CannotTranscribe(raised) ==
  /\ calls' = Append(calls, "Cannot transcribe")
  /\ raised = NotifyRaises
  /\ UNCHANGED files

\* variant: stop_recording goes on without model_loaded.wait()
await_ready_NoWait == TRUE

\* self.model_loaded.wait() returns: the event is set
await_ready == model_loaded

\* stop_recording: model_loaded.wait() returns; the model_error check
AwaitModel ==
  /\ Alive /\ pc = "wait_model"
  /\ await_ready
  /\ IF Truthy(model_error)
       THEN \E raised \in BOOLEAN :
              /\ CannotTranscribe(raised)
              /\ selector' = IF raised THEN Unregister(device[1]) ELSE selector
              /\ pc' = "select" /\ device' = NoneVal
       ELSE pc' = "transcribe" /\ UNCHANGED <<selector, device, pipe, files>>
  /\ UNCHANGED <<config, env, loader, boot, exitStatus, sess, children,
                 sigterm, lastRead>>

\* stop_recording: the try/except/finally around model.transcribe.
\* threw: the call or the iteration of its segments raises; segs: what it
\* yields otherwise
Pipeline(threw, segs, raised) ==
  LET unset == model = NoneVal \/ temp_file = NoneVal
      failed == unset \/ threw
      t == Join(segs)
      typeRaises == t # <<>> /\ AUTO_TYPE /\ typing_tool \notin avail
      tried == IF failed THEN <<>>
               ELSE SinkCalls(t) \o
                    (IF typeRaises THEN <<>>
                     ELSE IF t # <<>> THEN <<"Copied">>
                     ELSE <<"No speech detected">>)
      assembled == IF failed THEN <<>>
                   ELSE IF t # <<>> THEN <<"text">> ELSE <<"no text">>
      caught == failed \/ typeRaises \/ NotifyRaises
  IN /\ (temp_file # NoneVal /\ temp_file[1] \notin files) => threw
     /\ calls' = calls \o (IF unset THEN <<>> ELSE <<"transcribe">>)
                       \o assembled \o tried
                       \o (IF caught THEN <<"Error">> ELSE <<>>)
     /\ raised = NotifyRaises
     /\ files' = Cleanup

Transcribe ==
  /\ Alive /\ pc = "transcribe"
  /\ \E threw \in BOOLEAN, segs \in SegSeqs, raised \in BOOLEAN :
       /\ threw => segs = <<>>
       /\ Pipeline(threw, segs, raised)
       /\ selector' = IF raised THEN Unregister(device[1]) ELSE selector
  /\ pc' = "select" /\ device' = NoneVal
  /\ UNCHANGED <<config, env, loader, boot, exitStatus, sess, children,
                 sigterm, lastRead>>

\* ------------------------------------------------------------ environment
\* a capture child exits (after SIGTERM, or on its own)
ChildExit ==
  /\ \E c \in children :
       /\ children' = children \ {c}
       /\ sigterm' = sigterm \ {c}
  /\ UNCHANGED <<config, env, loader, boot, exitStatus, sess, pipe, pc,
                 selector, device, files, lastRead>>

\* a tool is installed or removed once the startup check has run
EnvChange ==
  /\ Alive /\ pc # "main"
  /\ \E t \in Tools :
       avail' = IF t \in avail THEN avail \ {t} ELSE avail \cup {t}
  /\ UNCHANGED <<config, loader, boot, exitStatus, sess, os, pipe, pc,
                 selector, device, lastRead>>

\* variant: stop() sends SIGTERM (15) to itself
stop_status_SIGTERM == 128 + 15

\* the wait status of a process that stop() ended
stop_status == 128 + SIGKILL

\* SIGINT with handle_sigint installed: Dictation.stop(). SIGKILL ends both
\* threads and the process image is gone: the Dictation object and the
\* loop's locals read as after construction. What the operating system
\* holds (capture children, temporary files, tools) stays as it is.
Interrupt ==
  /\ Alive /\ sigintHandler
  /\ running' = FALSE
  /\ exitStatus' = Some(stop_status)
  /\ interruptedAt' = Some(pc)
  /\ pc' = "killed"
  /\ recording' = FALSE /\ record_process' = NoneVal /\ temp_file' = NoneVal
  /\ record_cmd' = NoneVal /\ session' = 0 /\ loadingAtStart' = FALSE
  /\ model' = NoneVal /\ model_loaded' = FALSE /\ model_error' = NoneVal
  /\ loaderPc' = "unstarted"
  /\ keyboards' = {} /\ selector' = {} /\ device' = NoneVal
  /\ lastRead' = NoneVal /\ calls' = <<>>
  /\ UNCHANGED <<config, env, os, sigintHandler, missing>>

Next ==
  \/ CheckDependencies
  \/ Construct
  \/ InstallHandler
  \/ RunStart
  \/ LoadModel
  \/ SignalLoaded
  \/ ReadEvent
  \/ ReadError
  \/ WaitChild
  \/ AwaitModel
  \/ Transcribe
  \/ ChildExit
  \/ EnvChange
  \/ Interrupt

Spec == Init /\ [][Next]_vars

\* --------------------------------------------------------------- fairness
\* a capture child that terminate() sent SIGTERM exits
TerminatedChildExits == ChildExit /\ (children \ children') \subseteq sigterm

\* What the two threads do by themselves once they can: the blocking calls
\* of stop_recording return when what they wait for has happened, the model
\* call returns, the loader thread runs to its end. Nothing is assumed of
\* the keyboards, the tools, the signal, or a capture child.
LoopFair ==
  /\ Spec
  /\ WF_vars(WaitChild) /\ WF_vars(AwaitModel) /\ WF_vars(Transcribe)
  /\ WF_vars(LoadModel) /\ WF_vars(SignalLoaded)

\* LoopFair, and a capture child honours SIGTERM
FairSpec == LoopFair /\ WF_vars(TerminatedChildExits)

\* ================================================================= claims
\* the step handles a hotkey press / a hotkey release read from a device
HandledPress ==
  /\ pc = "select"
  /\ \E e \in BOOLEAN :
       lastRead' = Some(Read(NoneVal, "EV_KEY", HOTKEY, 1, e))
  /\ ReadEvent

HandledRelease ==
  /\ pc = "select"
  /\ \E e \in BOOLEAN :
       lastRead' = Some(Read(NoneVal, "EV_KEY", HOTKEY, 0, e))
  /\ ReadEvent

\* the step is a device.read() that raised OSError
ReadFailed ==
  /\ pc = "select"
  /\ \E d \in Devices :
       lastRead' = Some(Read(Some(d), "OSError", OTHERKEY, 0, FALSE))
  /\ ReadError

\* number of entries x in the log of the current recording
RECURSIVE Count(_, _)
Count(log, x) ==
  IF log = <<>> THEN 0
  ELSE (IF Head(log) = x THEN 1 ELSE 0) + Count(Tail(log), x)

\* C1: at most one capture child process exists in every reachable state,
\* and a hotkey press handled while already recording spawns no child and
\* creates no temporary file.
C1_OneCaptureChild ==
  /\ [](Cardinality(children) <= 1)
  /\ [][(recording /\ HandledPress)
          => (children' = children /\ files' = files
              /\ record_process' = record_process
              /\ temp_file' = temp_file)]_vars

\* a second press was handled while the first recording's child is running
C1_Witness ==
  /\ lastRead # NoneVal
  /\ lastRead[1].code = HOTKEY /\ lastRead[1].value = 1 /\ lastRead[1].early
  /\ recording /\ record_process # NoneVal
  /\ children = {record_process[1]}
  /\ Cardinality(selector) = 2

\* a stop_recording call returns to the loop without an OSError leaving it
StopReturns ==
  /\ pc' = "select" /\ selector' = selector
  /\ \/ pc \in {"wait_child", "wait_model", "transcribe"}
     \/ recording /\ HandledRelease

\* C2: whichever way the pipeline ends, when a stop_recording call made
\* while recording returns, the temporary file of that recording no longer
\* exists, the recording flag is false and no capture child is held.
C2_TempFileDeleted ==
  [][StopReturns
       => (session \notin files' /\ ~recording'
           /\ record_process' = NoneVal)]_vars

\* the loader has reached the failed state: _load_model took its except
\* branch and set the readiness signal
LoaderFailed == model_loaded /\ model_error # NoneVal

\* C3: once the loader has failed, whatever the exception, start_recording
\* is a no-op: the flag stays as it is, no temporary file is created and no
\* capture child is spawned.
C3_StartSuppressedAfterFailure ==
  [][(LoaderFailed /\ HandledPress)
       => (recording' = recording /\ files' = files
           /\ children' = children /\ temp_file' = temp_file)]_vars

\* C4: stop_recording called while idle changes nothing: no child spawned
\* or terminated, the model neither awaited nor invoked, no sink called, no
\* file deleted, no device unregistered.
C4_StopWhileIdleNoOp ==
  [][(~recording /\ HandledRelease)
       => (pc' = "select"
           /\ UNCHANGED <<sess, os, pipe, loader, selector, exitStatus>>)]_vars

\* a release was handled while idle after a recording had been completed
C4_Witness ==
  /\ lastRead # NoneVal
  /\ lastRead[1].code = HOTKEY /\ lastRead[1].value = 0 /\ lastRead[1].early
  /\ Alive /\ pc = "select" /\ ~recording
  /\ session >= 1 /\ "transcribe" \in {calls[i] : i \in 1..Len(calls)}

\* C5: a read error of a registered keyboard removes exactly that device,
\* the loop and the process go on (also with no device left), and no
\* device is ever registered again once the loop runs.
C5_HotUnplug ==
  /\ [][ReadFailed
          => (/\ lastRead'[1].dev[1] \in selector
              /\ selector' = selector \ {lastRead'[1].dev[1]}
              /\ pc' = "select" /\ exitStatus' = NoneVal
              /\ running')]_vars
  /\ [][pc # "run" => selector' \subseteq selector]_vars

\* one of two keyboards failed; the other is still registered and the
\* process is alive in its loop
C5_Witness ==
  /\ lastRead # NoneVal /\ lastRead[1].kind = "OSError"
  /\ Cardinality(keyboards) = 2
  /\ selector = keyboards \ {lastRead[1].dev[1]}
  /\ Alive /\ pc = "select"

\* C6: when the loader fails while a recording started during loading is
\* still in progress, the pending stop_recording, once the wait for the
\* model returns, reports "Cannot transcribe" and returns to the loop: it
\* does not go on to inference or to a sink.
C6_PendingStopCannotTranscribe ==
  [][(pc = "wait_model" /\ pc' # "wait_model" /\ exitStatus' = NoneVal
      /\ loadingAtStart /\ temp_file = Some(session) /\ LoaderFailed)
       => (pc' = "select"
           /\ calls' = Append(calls, "Cannot transcribe"))]_vars

\* C7: per recording, the Clipboard Sink is invoked exactly once when the
\* assembled transcript is non-empty, no sink is invoked when it is empty
\* (which is reported as "No speech detected"), and no sink is invoked more
\* than once.
C7_SinkFanOut ==
  /\ Count(calls, "clipboard") <= 1
  /\ Count(calls, "typing") <= 1
  /\ Count(calls, "text") = 1 => Count(calls, "clipboard") = 1
  /\ Count(calls, "no text") = 1
       => /\ Count(calls, "clipboard") = 0
          /\ Count(calls, "typing") = 0
          /\ Count(calls, "No speech detected") = 1

\* a recording ended with a non-empty transcript copied to the clipboard
C7_Witness ==
  /\ pc = "select" /\ ~recording
  /\ Count(calls, "text") = 1 /\ Count(calls, "clipboard") = 1
  /\ Count(calls, "Copied") = 1

\* C8: with auto_type disabled the Typing Sink is never invoked while every
\* non-empty transcript still reaches the Clipboard Sink; with auto_type
\* enabled the Typing Sink is invoked only after the Clipboard Sink.
C8_AutoType ==
  /\ ~AUTO_TYPE => Count(calls, "typing") = 0
  /\ Count(calls, "text") > 0 => Count(calls, "clipboard") > 0
  /\ \A i \in 1..Len(calls) :
       calls[i] = "typing" => \E j \in 1..(i - 1) : calls[j] = "clipboard"

\* auto_type is off and a non-empty transcript went to the clipboard only
C8_Witness ==
  /\ ~AUTO_TYPE /\ pc = "select"
  /\ Count(calls, "text") = 1 /\ Count(calls, "clipboard") = 1
  /\ Count(calls, "typing") = 0

\* C9: when at the startup check no capture backend is found, or auto_type
\* is on and the typing tool is absent, or when no keyboard is discovered,
\* the process exits non-zero; a process that exited has registered no
\* device, handled no event and spawned no capture child.
C9_FatalStartup ==
  /\ [][(pc = "main"
         /\ (\/ {"pw-record", "arecord"} \cap avail = {}
             \/ AUTO_TYPE /\ TYPING_TOOL \notin avail))
          => (pc' = "exited" /\ exitStatus' # NoneVal
              /\ exitStatus'[1] # 0)]_vars
  /\ [][(RunStart /\ keyboards' = {})
          => (pc' = "exited" /\ exitStatus' # NoneVal
              /\ exitStatus'[1] # 0 /\ selector' = {})]_vars
  /\ [](pc = "exited"
          => (selector = {} /\ lastRead = NoneVal /\ session = 0
              /\ children = {} /\ files = {} /\ interruptedAt = NoneVal))

\* auto_type is on, the typing tool is missing, and the process has exited
C9_Witness ==
  /\ pc = "exited" /\ exitStatus = Some(EXIT_FAILURE)
  /\ AUTO_TYPE /\ TYPING_TOOL \in missing
  /\ get_audio_recorder # "none"

\* C10 as stated: an interrupted process has exit code 0.
C10_ExitCodeZero == pc = "killed" => exitStatus = Some(0)

\* C10, amended: an interrupt handled by handle_sigint ends the process by
\* SIGKILL (wait status 128 + 9, not 0) in whatever state it arrives.
C10_KilledBySignal ==
  [][(sigintHandler /\ exitStatus = NoneVal /\ exitStatus' # NoneVal
      /\ pc \in {"run", "select", "wait_child", "wait_model", "transcribe"}
      /\ pc' # "exited")
       => (pc' = "killed" /\ exitStatus' = Some(128 + SIGKILL)
           /\ ~running')]_vars

\* the interrupt arrived while stop_recording was transcribing
C10_Witness ==
  /\ pc = "killed" /\ interruptedAt = Some("transcribe")
  /\ exitStatus = Some(128 + SIGKILL)

\* the main thread is inside the transcription pipeline of stop_recording
InPipeline == pc \in {"wait_model", "transcribe"}

\* C12: while the pipeline of stop_recording runs (model wait, inference,
\* sink fan-out) no capture child is alive, and no key event is handled
\* until stop_recording has returned.
C12_ChildGoneBeforePipeline ==
  /\ [](InPipeline => (children = {} /\ record_process = NoneVal))
  /\ [][(pc \in {"wait_child", "wait_model", "transcribe"}
         /\ exitStatus' = NoneVal)
          => lastRead' = lastRead]_vars

\* inference has run on the file of a recording whose child was spawned and
\* has exited
C12_Witness ==
  /\ pc = "select" /\ Alive /\ children = {}
  /\ record_cmd # NoneVal /\ temp_file = Some(session)
  /\ Count(calls, "transcribe") = 1 /\ Count(calls, "Copied") = 1

\* the step invokes model.transcribe
Infers == Count(calls', "transcribe") > Count(calls, "transcribe")

\* C13: model.transcribe is invoked only on a handle that is ready (model
\* set, readiness signalled, no error), and a stop_recording that waits for
\* the model stays blocked as long as the readiness signal is not set.
C13_InferenceOnlyWhenReady ==
  /\ [][Infers => (model # NoneVal /\ model_loaded /\ model_error = NoneVal
                   /\ loaderPc = "done")]_vars
  /\ [][(pc = "wait_model" /\ ~model_loaded /\ exitStatus' = NoneVal)
          => pc' = "wait_model"]_vars

\* a recording begun while the model was loading was transcribed by the
\* loaded model
C13_Witness ==
  /\ loadingAtStart /\ Count(calls, "transcribe") = 1
  /\ model # NoneVal /\ model_loaded /\ pc = "select"

IgnoredReads ==
  {Some(Read(NoneVal, "EV_KEY", HOTKEY, 2, FALSE))}
  \cup {Some(Read(NoneVal, "EV_KEY", OTHERKEY, v, FALSE)) : v \in KeyValues}

\* C17: handling a repeat of the hotkey, or a press, release or repeat of
\* another key, leaves the controller as it was: recording flag, capture
\* child, temporary file, registered devices, and nothing is reported or
\* delivered.
C17_IgnoredEventsNoOp ==
  [][(pc = "select" /\ lastRead' \in IgnoredReads /\ ReadEvent)
       => (pc' = "select"
           /\ UNCHANGED <<sess, os, pipe, loader, selector,
                          exitStatus>>)]_vars

\* the held hotkey repeats while its recording's child is running
C17_Witness ==
  /\ lastRead = Some(Read(NoneVal, "EV_KEY", HOTKEY, 2, FALSE))
  /\ recording /\ record_process # NoneVal
  /\ children = {record_process[1]} /\ pc = "select" /\ Alive

\* C18: once the loop runs, a keyboard leaves the selector only in a step
\* in which reading that keyboard raised OSError; an error raised inside
\* start_recording or stop_recording unregisters nothing.
C18_OnlyReadErrorsUnregister ==
  [][(pc # "run" /\ exitStatus' = NoneVal /\ selector' # selector)
       => ReadFailed]_vars

\* C19: whenever control is in the main loop between events, the recording
\* flag is true exactly when a capture child handle is held, and then the
\* temporary file path is the one of the current recording.
C19_FlagMatchesHandle ==
  (pc = "select" /\ Alive)
    => /\ recording <=> record_process # NoneVal
       /\ recording => temp_file = Some(session)

\* a capture child is spawned in this step
Spawns == children' \ children # {}

\* C15: every capture child is invoked with the recorder command of the
\* backend resolved at startup, so a later start_recording never runs
\* another recorder command than the start_recording before it ran,
\* whatever has happened to the installed tools in between.
C15_SameRecorderCommand ==
  [][(Spawns /\ record_cmd # NoneVal) => record_cmd' = record_cmd]_vars

\* C11: stop_recording never waits for the capture child without bound:
\* whenever it is waiting for the child it eventually gets past the wait,
\* also when the child ignores SIGTERM (nothing is assumed of the child).
C11_WaitEnds == (Alive /\ pc = "wait_child") ~> (pc # "wait_child")

\* C20: when every keyboard has been unregistered while recording, the
\* recording is ended and its capture child terminated: the state "no device
\* registered, recording, capture child alive" does not persist.
C20_ChildEndsWithoutKeyboards ==
  (Alive /\ selector = {} /\ recording /\ children # {})
    ~> (~Alive \/ ~recording \/ children = {})

\* stop_recording has passed its guard and has not returned yet
InStop == pc \in {"wait_child", "wait_model", "transcribe"}

\* the controller is idle in the main loop or the process has ended
BackInIdle == ~Alive \/ (pc = "select" /\ ~recording)

\* the current recording's pipeline reported one of its outcomes
Outcome ==
  \E o \in {"Copied", "No speech detected", "Error", "Cannot transcribe"} :
    Count(calls, o) >= 1

\* a press is handled in Idle after a stop_recording has completed
PressAfterStop == ~recording /\ session >= 1 /\ HandledPress

====
